---- MODULE Spec2Model ----
(***************************************************************************)
(* A model of SimpleLogger (src/SimpleLogger/SimpleLogger.h).              *)
(*                                                                         *)
(* The process-wide registry is the four static members: mutex_,           *)
(* out_stream_, out_stream_valid_ and prefix_function_list_.  Every thread *)
(* runs, one statement at a time, the constructor, operator<<, the         *)
(* destructor, SetOstream and SetPrefixList.  A std::wosyncstream is       *)
(* modelled by what the library makes of it: a private buffer (buf) that   *)
(* is transferred to the wrapped stream buffer in one indivisible step     *)
(* when the wosyncstream is destroyed, and a sticky error state (bad)      *)
(* that turns every later insertion into a no-op.                          *)
(*                                                                         *)
(* Six specifications run the same actions:                                *)
(*   Spec      one logging thread and one configuring thread, from process *)
(*             start, with every severity, prefix list and value;          *)
(*   SpecConc  two logging threads and one configuring thread, from the    *)
(*             state main() reaches after its start-up configuration       *)
(*             (main.cpp 46-55), with one severity and one value;          *)
(*   SpecLock  two logging threads and two configuring threads, one call   *)
(*             of each setter, lines without appends;                      *)
(*   SpecEnv   one logging and one configuring thread while the installed  *)
(*             stream may stop being good();                               *)
(*   SpecSeq   no reconfiguration; one thread logs two lines one after the *)
(*             other while another logs one;                               *)
(*   SpecLive  no valid sink; two threads log without end while a third    *)
(*             reconfigures, under fair scheduling.                        *)
(***************************************************************************)
EXTENDS Integers, Sequences, FiniteSets, TLC

\* ------------------------------------------------------------------ bounds
MaxSinks == 2
MaxLinesPerThread == 1
MaxAppends == 2
MaxSetOstream == 2
MaxSetPrefixList == 1
MaxLinesInSequence == 2

\* ------------------------------------------------------- program constants
\* Severity is a uint8_t enum with five enumerators, 0..4, and severity_map
\* has five entries.  The value 5 stands for every out-of-range value a cast
\* can produce.
SeverityMapSize == 5

NULL == 0

\* A thread runs one operation at a time and the code never looks at the
\* thread's identity, so a run of any threads with at most two SimpleLogger
\* objects alive and one setter call in progress at once is a run of two
\* threads that only log and one thread that only configures.
Loggers == {1, 2}
LineLoggers == {1}
Configurers == {3}
AllConfigurers == {3, 4}
Threads == Loggers \cup AllConfigurers

SinkIds == 1..MaxSinks
Severities == 0..SeverityMapSize
ConcSeverities == {2}
Gens == {"A", "B"}
PrefixLists == {<<>>, <<"A">>, <<"A", "B">>, <<"B", "A">>}
LockPrefixLists == {<<"B", "A">>}
Values == {"x", "y"}
ConcValues == {"x"}
Separator == ": "
Endl == "\n"

VARIABLES
    \* the registry (statics)
    readers,                \* threads holding mutex_ shared
    writer,                 \* thread holding mutex_ exclusively, or NULL
    out_stream_,            \* the installed sink, or NULL
    out_stream_valid_,
    prefix_function_list_,
    \* the sink objects (std::wostream on the heap)
    sinkState,              \* "unallocated" | "live" | "freed"
    sinkGood,               \* what good() answers
    sinkContent,            \* the characters written, each with the line it belongs to
    \* each thread: its position, and the SimpleLogger object it is building
    pc,
    severity,               \* constructor argument
    newline_,
    out_sync_stream_,       \* NULL, or the sink whose buffer the wosyncstream wraps
    out_sync_stream_valid_,
    buf,                    \* what the wosyncstream has buffered
    bad,                    \* the wosyncstream's error state (badbit/failbit)
    it,                     \* position of the range-for over prefix_function_list_
    argSink,                \* argument of the running SetOstream
    argList,                \* argument of the running SetPrefixList
    nAppends,
    nLines,
    nSetOstream,
    nSetPrefixList,
    \* the process
    terminated,             \* std::terminate was called, or the process crashed
    \* history (read by no action's guard)
    caught,                 \* what the constructor's catch clause reported: "none",
                            \* "bad_alloc", "generator" or "severity"
    lineText,               \* what the thread's line has inserted so far
    genCalls,               \* prefix generators the thread's line has invoked
    given,                  \* the values the line's operator<< has inserted, in call order
    checkedSink,            \* out_stream_ when the line read out_stream_valid_
    snapSink,               \* the sink the last returned SetOstream installed, when
    snapList,               \* the constructor started (known: no setter overlapped)
    overlap,                \* a SetOstream replaced the sink while the line was active
    lastSink,               \* argument of the last SetOstream that returned
    lastList,               \* argument of the last SetPrefixList that returned
    closedLines             \* one record per destroyed SimpleLogger

registry == <<readers, writer, out_stream_, out_stream_valid_, prefix_function_list_>>
sinkVars == <<sinkState, sinkGood, sinkContent>>
objVars == <<severity, newline_, out_sync_stream_, out_sync_stream_valid_, buf, bad, it>>
callVars == <<argSink, argList, nAppends, nLines, nSetOstream, nSetPrefixList>>
lineHist == <<caught, lineText, genCalls, given, checkedSink, snapSink, snapList,
             overlap>>
histVars == <<lineHist, lastSink, lastList, closedLines>>
vars == <<registry, sinkVars, pc, objVars, callVars, terminated, histVars>>

\* The identity of the SimpleLogger object thread t is building.
LineId(t) == <<t, nLines[t]>>

\* --------------------------------------------------------------- helpers

\* severity_map.at(static_cast<size_t>(severity)) throws unless InRange.
severity_map == <<"DEBUG", "INFO", "WARNING", "ERROR", "CRITICAL">>
InRange(sev) == sev + 1 \in 1..Len(severity_map)

\* Mutant: the table is read one entry further on.
SeverityTagNext(sev) == severity_map[((sev + 1) % Len(severity_map)) + 1]

SeverityTag(sev) == severity_map[sev + 1]

\* Mutant: the separator is inserted before the tag.
SeparatorAndTag(sev) == <<Separator, SeverityTag(sev)>>

\* << severity_map.at(...) << L": "
TagAndSeparator(sev) == <<SeverityTag(sev), Separator>>

\* Mutant: the constructor and the destructor do not wait for a writer.
NoSharedLock == TRUE

\* Mutant: an exclusive lock is granted while readers hold the mutex.
ExclusiveIgnoresReaders == writer = NULL

\* std::shared_mutex
CanLockShared == writer = NULL
CanLockExclusive == writer = NULL /\ readers = {}

\* Mutant: the stream's state is not asked.
ComputeValidNoGood(s) == s # NULL

\* out_stream_.get() != nullptr && (*out_stream_.get()).good()
ComputeValid(s) == s # NULL /\ sinkGood[s]

Tagged(id, text) == [i \in 1..Len(text) |-> <<id, text[i]>>]

\* Mutant: the line writes to the sink itself, with no wosyncstream between.
InsertUnsynchronized(t, toks) ==
    /\ sinkContent' = [sinkContent EXCEPT ![out_sync_stream_[t]] =
                          IF bad[t] THEN @ ELSE @ \o Tagged(LineId(t), toks)]
    /\ UNCHANGED buf

\* Mutant: an insertion puts its tokens in front of what is buffered.
InsertInFront(t, toks) ==
    /\ buf' = [buf EXCEPT ![t] = IF bad[t] THEN @ ELSE toks \o @]
    /\ UNCHANGED sinkContent

\* "*out_sync_stream_.get() << a << b": the tokens go to the wosyncstream's own
\* buffer and nothing reaches the sink; a stream in an error state inserts
\* nothing.
Insert(t, toks) ==
    /\ buf' = [buf EXCEPT ![t] = IF bad[t] THEN @ ELSE @ \o toks]
    /\ UNCHANGED sinkContent

\* History: what line t has inserted.
Record(t, toks) ==
    lineText' = [lineText EXCEPT ![t] = IF bad[t] THEN @ ELSE @ \o toks]

\* Mutant: the catch clause clears the flag.
FlagClearedByCatch(t) == FALSE

\* The catch clause reports to std::cerr and touches no member.
FlagAfterCatch(t) == out_sync_stream_valid_[t]

\* if (newline_ && out_sync_stream_valid_)
WantsNewline(t) == newline_[t] /\ out_sync_stream_valid_[t]

InSetOstream(c) == pc[c] \in {"s_lock", "s_move", "s_valid", "s_unlock"}
InSetPrefixList(c) == pc[c] \in {"p_lock", "p_assign", "p_unlock"}

\* ------------------------------------------------------------ constructor

\* SimpleLogger(severity, newline): the member initialisers have run.  The
\* object is the thread's n-th.
BeginLineWith(t, sevs, nls, n) ==
    /\ ~terminated
    /\ pc[t] = "idle"
    /\ \E sev \in sevs, nl \in nls :
         /\ severity' = [severity EXCEPT ![t] = sev]
         /\ newline_' = [newline_ EXCEPT ![t] = nl]
    /\ nLines' = [nLines EXCEPT ![t] = n]
    /\ pc' = [pc EXCEPT ![t] = "c_lock"]
    /\ snapSink' = [snapSink EXCEPT ![t] =
          [known |-> \A c \in AllConfigurers : ~InSetOstream(c), sink |-> lastSink]]
    /\ snapList' = [snapList EXCEPT ![t] =
          [known |-> \A c \in AllConfigurers : ~InSetPrefixList(c), list |-> lastList]]
    /\ UNCHANGED <<registry, sinkVars, out_sync_stream_, out_sync_stream_valid_,
                   buf, bad, it, argSink, argList, nAppends, nSetOstream,
                   nSetPrefixList, terminated, caught, lineText, genCalls, given,
                   checkedSink, overlap, lastSink, lastList, closedLines>>

BeginLineFrom(t, sevs) ==
    /\ nLines[t] < MaxLinesPerThread
    /\ BeginLineWith(t, sevs, BOOLEAN, nLines[t] + 1)

BeginLine(t) == BeginLineFrom(t, Severities)
BeginLineConc(t) == BeginLineFrom(t, ConcSeverities)

\* One of the logging statements a thread runs one after the other
\* (main.cpp 61-65).
BeginLineSeq(t) ==
    /\ nLines[t] < MaxLinesInSequence
    /\ BeginLineWith(t, ConcSeverities, {TRUE}, nLines[t] + 1)

\* A thread that logs again and again; its lines are not told apart.
BeginLineLive(t) == BeginLineWith(t, ConcSeverities, {TRUE}, 1)

\* LOG(WARNING)
BeginLineLock(t) ==
    /\ nLines[t] < MaxLinesPerThread
    /\ BeginLineWith(t, ConcSeverities, {TRUE}, nLines[t] + 1)

\* std::shared_lock lock(mutex_);
CtorLock(t) ==
    /\ ~terminated
    /\ pc[t] = "c_lock"
    /\ CanLockShared
    /\ readers' = readers \cup {t}
    /\ pc' = [pc EXCEPT ![t] = "c_check"]
    /\ UNCHANGED <<writer, out_stream_, out_stream_valid_, prefix_function_list_,
                   sinkVars, objVars, callVars, terminated, histVars>>

\* if (out_stream_valid_)
CtorCheck(t) ==
    /\ ~terminated
    /\ pc[t] = "c_check"
    /\ pc' = [pc EXCEPT ![t] = IF out_stream_valid_ THEN "c_make" ELSE "c_unlock"]
    /\ checkedSink' = [checkedSink EXCEPT ![t] = out_stream_]
    /\ UNCHANGED <<registry, sinkVars, objVars, callVars, terminated, caught,
                   lineText, genCalls, given, snapSink, snapList, overlap, lastSink,
                   lastList, closedLines>>

\* out_sync_stream_ = std::make_unique<std::wosyncstream>(*out_stream_.get());
\* out_sync_stream_valid_ = true;
\* or make_unique throws std::bad_alloc, which the catch clause reports.
CtorMake(t) ==
    /\ ~terminated
    /\ pc[t] = "c_make"
    /\ \/ /\ out_sync_stream_' = [out_sync_stream_ EXCEPT ![t] = out_stream_]
          /\ out_sync_stream_valid_' = [out_sync_stream_valid_ EXCEPT ![t] = TRUE]
          /\ pc' = [pc EXCEPT ![t] = "c_prefix"]
          /\ UNCHANGED caught
       \/ /\ caught' = [caught EXCEPT ![t] = "bad_alloc"]
          /\ pc' = [pc EXCEPT ![t] = "c_unlock"]
          /\ UNCHANGED <<out_sync_stream_, out_sync_stream_valid_>>
    /\ UNCHANGED <<registry, sinkVars, severity, newline_, buf, bad, it, callVars,
                   terminated, lineText, genCalls, given, checkedSink, snapSink, snapList,
                   overlap, lastSink, lastList, closedLines>>

\* Mutant: the loop inserts a text kept from the installation and invokes no
\* generator.
CtorPrefixCached(t) ==
    /\ ~terminated
    /\ pc[t] = "c_prefix"
    /\ it[t] <= Len(prefix_function_list_)
    /\ Insert(t, <<prefix_function_list_[it[t]]>>)
    /\ Record(t, <<prefix_function_list_[it[t]]>>)
    /\ it' = [it EXCEPT ![t] = @ + 1]
    /\ UNCHANGED <<registry, sinkState, sinkGood, pc, severity, newline_,
                   out_sync_stream_, out_sync_stream_valid_, bad, callVars,
                   terminated, caught, genCalls, given, checkedSink, snapSink,
                   snapList, overlap, lastSink, lastList, closedLines>>

\* for (const auto& prefix : prefix_function_list_) *out_sync_stream_ << prefix();
\* One round of the loop: the generator returns its text, or throws a
\* std::exception, which the catch clause reports.
CtorPrefix(t) ==
    /\ ~terminated
    /\ pc[t] = "c_prefix"
    /\ it[t] <= Len(prefix_function_list_)
    /\ genCalls' = [genCalls EXCEPT ![t] = @ + 1]
    /\ \/ /\ Insert(t, <<prefix_function_list_[it[t]]>>)
          /\ Record(t, <<prefix_function_list_[it[t]]>>)
          /\ it' = [it EXCEPT ![t] = @ + 1]
          /\ UNCHANGED <<pc, caught, out_sync_stream_valid_>>
       \/ /\ caught' = [caught EXCEPT ![t] = "generator"]
          /\ out_sync_stream_valid_' =
                [out_sync_stream_valid_ EXCEPT ![t] = FlagAfterCatch(t)]
          /\ it' = [it EXCEPT ![t] = 1]
          /\ pc' = [pc EXCEPT ![t] = "c_unlock"]
          /\ UNCHANGED <<buf, lineText, sinkContent>>
    /\ UNCHANGED <<registry, sinkState, sinkGood, severity, newline_,
                   out_sync_stream_, bad, callVars, terminated, given, checkedSink,
                   snapSink, snapList, overlap, lastSink, lastList, closedLines>>

\* *out_sync_stream_ << severity_map.at(static_cast<size_t>(severity)) << L": ";
\* at() throws std::out_of_range before anything is inserted.
CtorSeverity(t) ==
    /\ ~terminated
    /\ pc[t] = "c_prefix"
    /\ it[t] > Len(prefix_function_list_)
    /\ IF InRange(severity[t])
         THEN /\ Insert(t, TagAndSeparator(severity[t]))
              /\ Record(t, TagAndSeparator(severity[t]))
              /\ UNCHANGED <<caught, out_sync_stream_valid_>>
         ELSE /\ caught' = [caught EXCEPT ![t] = "severity"]
              /\ out_sync_stream_valid_' =
                    [out_sync_stream_valid_ EXCEPT ![t] = FlagAfterCatch(t)]
              /\ UNCHANGED <<buf, lineText, sinkContent>>
    /\ it' = [it EXCEPT ![t] = 1]
    /\ pc' = [pc EXCEPT ![t] = "c_unlock"]
    /\ UNCHANGED <<registry, sinkState, sinkGood, severity, newline_,
                   out_sync_stream_, bad, callVars, terminated, genCalls, given,
                   checkedSink, snapSink, snapList, overlap, lastSink, lastList,
                   closedLines>>

\* End of the constructor: the shared_lock goes out of scope.
CtorUnlock(t) ==
    /\ ~terminated
    /\ pc[t] = "c_unlock"
    /\ readers' = readers \ {t}
    /\ pc' = [pc EXCEPT ![t] = "active"]
    /\ UNCHANGED <<writer, out_stream_, out_stream_valid_, prefix_function_list_,
                   sinkVars, objVars, callVars, terminated, histVars>>

\* ------------------------------------------------------------- operator<<

\* operator<<(const T& value) noexcept.  The insertion of the value either
\* succeeds, or fails and leaves the stream in an error state, or throws; the
\* function is noexcept and has no handler, so a throw is std::terminate.
AppendValueFrom(t, vals) ==
    /\ ~terminated
    /\ pc[t] = "active"
    /\ nAppends[t] < MaxAppends
    /\ nAppends' = [nAppends EXCEPT ![t] = @ + 1]
    /\ IF out_sync_stream_valid_[t]
         THEN \/ \E v \in vals :
                   /\ Insert(t, <<v>>)
                   /\ Record(t, <<v>>)
                   /\ given' = [given EXCEPT ![t] = IF bad[t] THEN @ ELSE Append(@, v)]
                   /\ UNCHANGED <<bad, terminated>>
              \/ /\ bad' = [bad EXCEPT ![t] = TRUE]
                 /\ UNCHANGED <<buf, lineText, given, sinkContent, terminated>>
              \/ /\ terminated' = TRUE
                 /\ UNCHANGED <<buf, lineText, given, sinkContent, bad>>
         ELSE UNCHANGED <<buf, lineText, given, sinkContent, bad, terminated>>
    /\ UNCHANGED <<registry, sinkState, sinkGood, pc, severity, newline_,
                   out_sync_stream_, out_sync_stream_valid_, it, argSink, argList,
                   nLines, nSetOstream, nSetPrefixList, caught, genCalls,
                   checkedSink, snapSink, snapList, overlap, lastSink, lastList,
                   closedLines>>

AppendValue(t) == AppendValueFrom(t, Values)
AppendValueConc(t) == AppendValueFrom(t, ConcValues)

\* ------------------------------------------------------------- destructor

\* The end of the logging statement: ~SimpleLogger() is entered.
Close(t) ==
    /\ ~terminated
    /\ pc[t] = "active"
    /\ pc' = [pc EXCEPT ![t] = "d_lock"]
    /\ UNCHANGED <<registry, sinkVars, objVars, callVars, terminated, histVars>>

\* std::shared_lock lock(mutex_);
DtorLock(t) ==
    /\ ~terminated
    /\ pc[t] = "d_lock"
    /\ CanLockShared
    /\ readers' = readers \cup {t}
    /\ pc' = [pc EXCEPT ![t] = "d_newline"]
    /\ UNCHANGED <<writer, out_stream_, out_stream_valid_, prefix_function_list_,
                   sinkVars, objVars, callVars, terminated, histVars>>

\* if (newline_ && out_sync_stream_valid_) *out_sync_stream_.get() << std::endl;
\* (std::endl on a wosyncstream inserts the terminator and notes a flush for
\* the transfer; it transfers nothing itself.)
DtorNewline(t) ==
    /\ ~terminated
    /\ pc[t] = "d_newline"
    /\ IF WantsNewline(t)
         THEN Insert(t, <<Endl>>) /\ Record(t, <<Endl>>)
         ELSE UNCHANGED <<buf, lineText, sinkContent>>
    /\ pc' = [pc EXCEPT ![t] = "d_reset"]
    /\ UNCHANGED <<registry, sinkState, sinkGood, severity, newline_,
                   out_sync_stream_, out_sync_stream_valid_, bad, it, callVars,
                   terminated, caught, genCalls, given, checkedSink, snapSink, snapList,
                   overlap, lastSink, lastList, closedLines>>

ClosedRecord(t, how) ==
    [id |-> LineId(t), sink |-> out_sync_stream_[t], text |-> lineText[t],
     snapSink |-> snapSink[t], overlap |-> overlap[t], how |-> how]

\* ~wosyncstream: the buffered characters are transferred to the wrapped
\* stream buffer as one block.  When that stream has been destroyed the
\* transfer is a use after free: the process crashes, or the characters go to
\* freed memory.
Emit(t) ==
    LET s == out_sync_stream_[t] IN
    IF sinkState[s] = "live"
      THEN /\ sinkContent' = [sinkContent EXCEPT ![s] = @ \o Tagged(LineId(t), buf[t])]
           /\ closedLines' = closedLines \cup {ClosedRecord(t, "delivered")}
           /\ UNCHANGED terminated
      ELSE \/ /\ terminated' = TRUE
              /\ UNCHANGED <<sinkContent, closedLines>>
           \/ /\ closedLines' = closedLines \cup {ClosedRecord(t, "lost")}
              /\ UNCHANGED <<sinkContent, terminated>>

\* out_sync_stream_.reset();
DtorReset(t) ==
    /\ ~terminated
    /\ pc[t] = "d_reset"
    /\ IF out_sync_stream_[t] # NULL
         THEN Emit(t)
         ELSE /\ closedLines' = closedLines \cup {ClosedRecord(t, "none")}
              /\ UNCHANGED <<sinkContent, terminated>>
    /\ out_sync_stream_' = [out_sync_stream_ EXCEPT ![t] = NULL]
    /\ buf' = [buf EXCEPT ![t] = <<>>]
    /\ pc' = [pc EXCEPT ![t] = "d_unlock"]
    /\ UNCHANGED <<registry, sinkState, sinkGood, severity, newline_,
                   out_sync_stream_valid_, bad, it, callVars, lineHist, lastSink,
                   lastList>>

\* End of the destructor: the lock is released and the object is gone.
DtorUnlock(t) ==
    /\ ~terminated
    /\ pc[t] = "d_unlock"
    /\ readers' = readers \ {t}
    /\ pc' = [pc EXCEPT ![t] = "idle"]
    /\ severity' = [severity EXCEPT ![t] = 0]
    /\ newline_' = [newline_ EXCEPT ![t] = TRUE]
    /\ out_sync_stream_valid_' = [out_sync_stream_valid_ EXCEPT ![t] = FALSE]
    /\ bad' = [bad EXCEPT ![t] = FALSE]
    /\ nAppends' = [nAppends EXCEPT ![t] = 0]
    /\ caught' = [caught EXCEPT ![t] = "none"]
    /\ lineText' = [lineText EXCEPT ![t] = <<>>]
    /\ genCalls' = [genCalls EXCEPT ![t] = 0]
    /\ given' = [given EXCEPT ![t] = <<>>]
    /\ checkedSink' = [checkedSink EXCEPT ![t] = NULL]
    /\ snapSink' = [snapSink EXCEPT ![t] = [known |-> FALSE, sink |-> NULL]]
    /\ snapList' = [snapList EXCEPT ![t] = [known |-> FALSE, list |-> <<>>]]
    /\ overlap' = [overlap EXCEPT ![t] = FALSE]
    /\ UNCHANGED <<writer, out_stream_, out_stream_valid_, prefix_function_list_,
                   sinkVars, out_sync_stream_, buf, it, argSink, argList, nLines,
                   nSetOstream, nSetPrefixList, terminated, lastSink, lastList,
                   closedLines>>

\* -------------------------------------------------------------- SetOstream

Unallocated == {s \in SinkIds : sinkState[s] = "unallocated"}

\* The lines whose constructor has started and has not yet bound its handle.
Binding == {t \in Loggers : pc[t] \in {"c_lock", "c_check", "c_make"}}
\* The lines whose constructor has not yet left the prefix loop.
Prefixing == {t \in Loggers : pc[t] \in {"c_lock", "c_check", "c_make", "c_prefix"}}

\* The caller makes the stream (or passes an empty pointer) and calls
\* SetOstream(std::move(out_stream)).
BeginSetOstreamFrom(t, healths) ==
    /\ ~terminated
    /\ pc[t] = "idle"
    /\ nSetOstream < MaxSetOstream
    /\ nSetOstream' = nSetOstream + 1
    /\ \/ /\ argSink' = [argSink EXCEPT ![t] = NULL]
          /\ UNCHANGED <<sinkState, sinkGood>>
       \/ /\ Unallocated # {}
          /\ LET s == CHOOSE x \in Unallocated : \A y \in Unallocated : x <= y IN
             \E g \in healths :
               /\ argSink' = [argSink EXCEPT ![t] = s]
               /\ sinkState' = [sinkState EXCEPT ![s] = "live"]
               /\ sinkGood' = [sinkGood EXCEPT ![s] = g]
    /\ pc' = [pc EXCEPT ![t] = "s_lock"]
    /\ snapSink' = [u \in Threads |->
          IF u \in Binding THEN [snapSink[u] EXCEPT !.known = FALSE] ELSE snapSink[u]]
    /\ UNCHANGED <<registry, sinkContent, objVars, argList, nAppends, nLines,
                   nSetPrefixList, terminated, caught, lineText, genCalls, given,
                   checkedSink, snapList, overlap, lastSink, lastList, closedLines>>

BeginSetOstream(t) == BeginSetOstreamFrom(t, BOOLEAN)
BeginSetOstreamLock(t) == BeginSetOstreamFrom(t, {TRUE})
\* SetOstream(nullptr)
BeginSetOstreamLive(t) == BeginSetOstreamFrom(t, {})

\* std::lock_guard lock(mutex_);
SetOstreamLock(t) ==
    /\ ~terminated
    /\ pc[t] = "s_lock"
    /\ CanLockExclusive
    /\ writer' = t
    /\ pc' = [pc EXCEPT ![t] = "s_move"]
    /\ UNCHANGED <<readers, out_stream_, out_stream_valid_, prefix_function_list_,
                   sinkVars, objVars, callVars, terminated, histVars>>

\* out_stream_ = std::move(out_stream);   the stream owned before is destroyed
SetOstreamMove(t) ==
    /\ ~terminated
    /\ pc[t] = "s_move"
    /\ out_stream_' = argSink[t]
    /\ sinkState' = IF out_stream_ # NULL
                      THEN [sinkState EXCEPT ![out_stream_] = "freed"]
                      ELSE sinkState
    /\ pc' = [pc EXCEPT ![t] = "s_valid"]
    /\ overlap' = [u \in Threads |->
          overlap[u] \/ (pc[u] \in {"active", "d_lock"} /\ out_sync_stream_[u] # NULL)]
    /\ UNCHANGED <<readers, writer, out_stream_valid_, prefix_function_list_,
                   sinkGood, sinkContent, objVars, callVars, terminated, caught,
                   lineText, genCalls, given, checkedSink, snapSink, snapList, lastSink,
                   lastList, closedLines>>

\* out_stream_valid_ = out_stream_.get() != nullptr && (*out_stream_.get()).good();
SetOstreamValid(t) ==
    /\ ~terminated
    /\ pc[t] = "s_valid"
    /\ out_stream_valid_' = ComputeValid(out_stream_)
    /\ pc' = [pc EXCEPT ![t] = "s_unlock"]
    /\ UNCHANGED <<readers, writer, out_stream_, prefix_function_list_,
                   sinkVars, objVars, callVars, terminated, histVars>>

\* End of SetOstream: the lock_guard goes out of scope.
SetOstreamUnlock(t) ==
    /\ ~terminated
    /\ pc[t] = "s_unlock"
    /\ writer' = NULL
    /\ lastSink' = argSink[t]
    /\ argSink' = [argSink EXCEPT ![t] = NULL]
    /\ pc' = [pc EXCEPT ![t] = "idle"]
    /\ UNCHANGED <<readers, out_stream_, out_stream_valid_, prefix_function_list_,
                   sinkVars, objVars, argList, nAppends, nLines, nSetOstream,
                   nSetPrefixList, terminated, lineHist, lastList, closedLines>>

\* ----------------------------------------------------------- SetPrefixList

BeginSetPrefixListFrom(t, lists) ==
    /\ ~terminated
    /\ pc[t] = "idle"
    /\ nSetPrefixList < MaxSetPrefixList
    /\ nSetPrefixList' = nSetPrefixList + 1
    /\ \E l \in lists : argList' = [argList EXCEPT ![t] = l]
    /\ pc' = [pc EXCEPT ![t] = "p_lock"]
    /\ snapList' = [u \in Threads |->
          IF u \in Prefixing THEN [snapList[u] EXCEPT !.known = FALSE] ELSE snapList[u]]
    /\ UNCHANGED <<registry, sinkVars, objVars, argSink, nAppends, nLines,
                   nSetOstream, terminated, caught, lineText, genCalls, given,
                   checkedSink, snapSink, overlap, lastSink, lastList, closedLines>>

BeginSetPrefixList(t) == BeginSetPrefixListFrom(t, PrefixLists)
BeginSetPrefixListLock(t) == BeginSetPrefixListFrom(t, LockPrefixLists)

\* std::lock_guard lock(mutex_);
SetPrefixListLock(t) ==
    /\ ~terminated
    /\ pc[t] = "p_lock"
    /\ CanLockExclusive
    /\ writer' = t
    /\ pc' = [pc EXCEPT ![t] = "p_assign"]
    /\ UNCHANGED <<readers, out_stream_, out_stream_valid_, prefix_function_list_,
                   sinkVars, objVars, callVars, terminated, histVars>>

\* Mutant: SetPrefixList computes the validity flag again.
SetPrefixListAssignRevalidates(t) ==
    /\ ~terminated
    /\ pc[t] = "p_assign"
    /\ prefix_function_list_' = argList[t]
    /\ out_stream_valid_' = ComputeValid(out_stream_)
    /\ pc' = [pc EXCEPT ![t] = "p_unlock"]
    /\ UNCHANGED <<readers, writer, out_stream_,
                   sinkVars, objVars, callVars, terminated, histVars>>

\* prefix_function_list_ = prefix_list;
SetPrefixListAssign(t) ==
    /\ ~terminated
    /\ pc[t] = "p_assign"
    /\ prefix_function_list_' = argList[t]
    /\ pc' = [pc EXCEPT ![t] = "p_unlock"]
    /\ UNCHANGED <<readers, writer, out_stream_, out_stream_valid_,
                   sinkVars, objVars, callVars, terminated, histVars>>

\* End of SetPrefixList: the lock_guard goes out of scope.
SetPrefixListUnlock(t) ==
    /\ ~terminated
    /\ pc[t] = "p_unlock"
    /\ writer' = NULL
    /\ lastList' = argList[t]
    /\ argList' = [argList EXCEPT ![t] = <<>>]
    /\ pc' = [pc EXCEPT ![t] = "idle"]
    /\ UNCHANGED <<readers, out_stream_, out_stream_valid_, prefix_function_list_,
                   sinkVars, objVars, argSink, nAppends, nLines, nSetOstream,
                   nSetPrefixList, terminated, lineHist, lastSink, closedLines>>

\* ------------------------------------------------------------ environment

\* The installed stream stops being good() (its device fails, or whoever
\* kept a reference to it sets its state).  The code asks good() once, in
\* SetOstream, and never again.
StreamFails(s) ==
    /\ ~terminated
    /\ sinkState[s] = "live" /\ out_stream_ = s /\ sinkGood[s]
    /\ sinkGood' = [sinkGood EXCEPT ![s] = FALSE]
    /\ UNCHANGED <<registry, sinkState, sinkContent, pc, objVars, callVars,
                   terminated, histVars>>

\* ---------------------------------------------------------- specification

\* Every line's own fields, before any line exists.
NoLines ==
    /\ pc = [t \in Threads |-> "idle"]
    /\ severity = [t \in Threads |-> 0]
    /\ newline_ = [t \in Threads |-> TRUE]
    /\ out_sync_stream_ = [t \in Threads |-> NULL]
    /\ out_sync_stream_valid_ = [t \in Threads |-> FALSE]
    /\ buf = [t \in Threads |-> <<>>]
    /\ bad = [t \in Threads |-> FALSE]
    /\ it = [t \in Threads |-> 1]
    /\ argSink = [t \in Threads |-> NULL]
    /\ argList = [t \in Threads |-> <<>>]
    /\ nAppends = [t \in Threads |-> 0]
    /\ nLines = [t \in Threads |-> 0]
    /\ terminated = FALSE
    /\ caught = [t \in Threads |-> "none"]
    /\ lineText = [t \in Threads |-> <<>>]
    /\ genCalls = [t \in Threads |-> 0]
    /\ given = [t \in Threads |-> <<>>]
    /\ checkedSink = [t \in Threads |-> NULL]
    /\ snapSink = [t \in Threads |-> [known |-> FALSE, sink |-> NULL]]
    /\ snapList = [t \in Threads |-> [known |-> FALSE, list |-> <<>>]]
    /\ overlap = [t \in Threads |-> FALSE]
    /\ closedLines = {}

\* Process start: the statics as their initialisers leave them.
Init ==
    /\ readers = {}
    /\ writer = NULL
    /\ out_stream_ = NULL
    /\ out_stream_valid_ = FALSE
    /\ prefix_function_list_ = <<>>
    /\ sinkState = [s \in SinkIds |-> "unallocated"]
    /\ sinkGood = [s \in SinkIds |-> TRUE]
    /\ sinkContent = [s \in SinkIds |-> <<>>]
    /\ nSetOstream = 0
    /\ nSetPrefixList = 0
    /\ lastSink = NULL
    /\ lastList = <<>>
    /\ NoLines

\* main() after its start-up configuration: SetOstream(the opened file) and
\* SetPrefixList({DateTimePrefix}) have returned.
InitMain ==
    /\ readers = {}
    /\ writer = NULL
    /\ out_stream_ = 1
    /\ out_stream_valid_ = TRUE
    /\ prefix_function_list_ = <<"A">>
    /\ sinkState = [s \in SinkIds |-> IF s = 1 THEN "live" ELSE "unallocated"]
    /\ sinkGood = [s \in SinkIds |-> TRUE]
    /\ sinkContent = [s \in SinkIds |-> <<>>]
    /\ nSetOstream = 1
    /\ nSetPrefixList = 1
    /\ lastSink = 1
    /\ lastList = <<"A">>
    /\ NoLines

LineStep(t) ==
    \/ CtorLock(t)
    \/ CtorCheck(t)
    \/ CtorMake(t)
    \/ CtorPrefix(t)
    \/ CtorSeverity(t)
    \/ CtorUnlock(t)
    \/ Close(t)
    \/ DtorLock(t)
    \/ DtorNewline(t)
    \/ DtorReset(t)
    \/ DtorUnlock(t)

SetOstreamStep(t) ==
    \/ BeginSetOstream(t)
    \/ SetOstreamLock(t)
    \/ SetOstreamMove(t)
    \/ SetOstreamValid(t)
    \/ SetOstreamUnlock(t)

SetPrefixListStep(t) ==
    \/ BeginSetPrefixList(t)
    \/ SetPrefixListLock(t)
    \/ SetPrefixListAssign(t)
    \/ SetPrefixListUnlock(t)

Next ==
    \/ \E t \in LineLoggers : BeginLine(t) \/ AppendValue(t) \/ LineStep(t)
    \/ \E t \in Configurers : SetOstreamStep(t) \/ SetPrefixListStep(t)

NextConc ==
    \/ \E t \in Loggers : BeginLineConc(t) \/ AppendValueConc(t) \/ LineStep(t)
    \/ \E t \in Configurers : SetOstreamStep(t)

\* A program that installed its stream and the prefix list [A, B] at start-up;
\* from here on two threads log while two others reconfigure (one more
\* SetOstream, one SetPrefixList).
InitLock ==
    /\ readers = {}
    /\ writer = NULL
    /\ out_stream_ = 1
    /\ out_stream_valid_ = TRUE
    /\ prefix_function_list_ = <<"A", "B">>
    /\ sinkState = [s \in SinkIds |-> IF s = 1 THEN "live" ELSE "unallocated"]
    /\ sinkGood = [s \in SinkIds |-> TRUE]
    /\ sinkContent = [s \in SinkIds |-> <<>>]
    /\ nSetOstream = 1
    /\ nSetPrefixList = 0
    /\ lastSink = 1
    /\ lastList = <<"A", "B">>
    /\ NoLines

SetOstreamStepLock(t) ==
    \/ BeginSetOstreamLock(t)
    \/ SetOstreamLock(t)
    \/ SetOstreamMove(t)
    \/ SetOstreamValid(t)
    \/ SetOstreamUnlock(t)

SetPrefixListStepLock(t) ==
    \/ BeginSetPrefixListLock(t)
    \/ SetPrefixListLock(t)
    \/ SetPrefixListAssign(t)
    \/ SetPrefixListUnlock(t)

NextLock ==
    \/ \E t \in Loggers : BeginLineLock(t) \/ LineStep(t)
    \/ \E c \in AllConfigurers : SetOstreamStepLock(c) \/ SetPrefixListStepLock(c)

\* After start-up nothing is reconfigured; one thread runs its logging
\* statements one after the other while another thread logs a line.
NextSeq ==
    \/ \E t \in LineLoggers : BeginLineSeq(t)
    \/ \E t \in Loggers \ LineLoggers : BeginLineLock(t)
    \/ \E t \in Loggers : AppendValueConc(t) \/ LineStep(t)

\* No valid sink is ever installed, so that a line is its constructor and its
\* destructor taking the shared lock and nothing else; two threads log
\* without end while a third reconfigures.
LineStepLive(t) ==
    \/ BeginLineLive(t)
    \/ CtorLock(t)
    \/ CtorCheck(t)
    \/ CtorUnlock(t)
    \/ Close(t)
    \/ DtorLock(t)
    \/ DtorNewline(t)
    \/ DtorReset(t)
    \/ DtorUnlock(t)

SetterStepLive(c) ==
    \/ BeginSetOstreamLive(c)
    \/ SetOstreamLock(c)
    \/ SetOstreamMove(c)
    \/ SetOstreamValid(c)
    \/ SetOstreamUnlock(c)
    \/ SetPrefixListStepLock(c)

NextLive ==
    \/ \E t \in Loggers : LineStepLive(t)
    \/ \E c \in Configurers : SetterStepLive(c)

\* Every thread that can take a step is scheduled in the end, and a thread
\* that waits for the exclusive lock gets it if the mutex is free again and
\* again.  std::shared_mutex promises no more: whether a waiting writer keeps
\* new readers out is left to the implementation.
Fairness ==
    /\ \A t \in Loggers : WF_vars(LineStepLive(t))
    /\ \A c \in Configurers :
          /\ WF_vars(SetterStepLive(c))
          /\ SF_vars(SetOstreamLock(c))
          /\ SF_vars(SetPrefixListLock(c))

\* One thread logs and one reconfigures, from process start, while the
\* installed stream may fail at any moment.
NextEnv ==
    \/ \E t \in LineLoggers : BeginLineConc(t) \/ AppendValueConc(t) \/ LineStep(t)
    \/ \E c \in Configurers : SetOstreamStep(c) \/ SetPrefixListStep(c)
    \/ \E s \in SinkIds : StreamFails(s)

Spec == Init /\ [][Next]_vars
SpecConc == InitMain /\ [][NextConc]_vars
SpecLock == InitLock /\ [][NextLock]_vars
SpecEnv == Init /\ [][NextEnv]_vars
SpecSeq == InitMain /\ [][NextSeq]_vars
SpecLive == Init /\ [][NextLive]_vars /\ Fairness

\* ------------------------------------------------------------------ claims

\* The text that line id has in sink s, in the order it stands there.
TextOf(s, id) ==
    LET sel == SelectSeq(sinkContent[s], LAMBDA e : e[1] = id)
    IN  [i \in 1..Len(sel) |-> sel[i][2]]

\* In sink content c, the characters of one line stand next to each other.
Contiguous(c) ==
    \A i, j \in 1..Len(c) :
        (i < j /\ c[i][1] = c[j][1]) => \A k \in i..j : c[k][1] = c[i][1]

AfterCtor == {"active", "d_lock", "d_newline", "d_reset", "d_unlock"}

\* C1 (atomicity): with several threads building lines on the same sink in
\* any interleaving, the characters of one line stand in the sink as one
\* contiguous block, no character of another line between them; the block of
\* a closed line is exactly what the line inserted (prefixes, tag, separator,
\* values, terminator); and every closed line whose sink was not replaced
\* under it is in the sink.
Atomicity ==
    /\ \A s \in SinkIds : Contiguous(sinkContent[s])
    /\ \A r \in closedLines :
          /\ r.how = "delivered" => TextOf(r.sink, r.id) = r.text
          /\ (r.sink # NULL /\ ~r.overlap) => r.how = "delivered"

\* C1 witness: one line stands complete in the sink while another line, bound
\* to the same sink, is in the middle of its text.
AtomicityWitness ==
    \E r \in closedLines, t \in Loggers :
        /\ r.how = "delivered" /\ Len(r.text) >= 4
        /\ pc[t] = "active" /\ out_sync_stream_[t] = r.sink
        /\ Len(buf[t]) >= 4

\* C2: every SimpleLogger that holds a wosyncstream holds one whose wrapped
\* sink has not been destroyed (SetOstream releases a sink only when no line
\* holds a handle into it).
HandleBoundToLiveSink ==
    \A t \in Loggers :
        out_sync_stream_[t] # NULL => sinkState[out_sync_stream_[t]] = "live"

\* C3 (reconfiguration snapshot): a line that was active with a bound handle
\* when SetOstream replaced the sink has, once closed, its complete text in
\* the sink it was bound to, and no character in any other sink.
SnapshotLineDelivered ==
    \A r \in closedLines :
        r.overlap =>
            /\ r.how = "delivered"
            /\ TextOf(r.sink, r.id) = r.text
            /\ \A s \in SinkIds \ {r.sink} : TextOf(s, r.id) = <<>>

InCtor == {"c_lock", "c_check", "c_make", "c_prefix", "c_unlock"}
Stepped(t) == pc'[t] # pc[t] \/ nAppends'[t] # nAppends[t]
IsAppend(t) == nAppends'[t] = nAppends[t] + 1
Count(text, tok) == Cardinality({i \in 1..Len(text) : text[i] = tok})
StartsWith(text, head) ==
    Len(text) >= Len(head) /\ SubSeq(text, 1, Len(head)) = head

CtorFailureInv ==
    \A t \in Loggers :
        /\ caught[t] # "none" => pc[t] \in {"c_unlock"} \cup AfterCtor
        /\ caught[t] = "bad_alloc" =>
              /\ ~out_sync_stream_valid_[t] /\ out_sync_stream_[t] = NULL
              /\ buf[t] = <<>> /\ lineText[t] = <<>>
        /\ caught[t] \in {"generator", "severity"} =>
              /\ out_sync_stream_valid_[t]
              /\ pc[t] # "d_unlock" => out_sync_stream_[t] # NULL

CtorFailureAct ==
    \A t \in Loggers :
        /\ (caught[t] = "none" /\ caught'[t] # "none") =>
              (terminated' = terminated /\ pc'[t] = "c_unlock")
        /\ (caught[t] \in {"generator", "severity"} /\ IsAppend(t)
               /\ ~bad'[t] /\ ~terminated') =>
              (Len(lineText'[t]) = Len(lineText[t]) + 1 /\ buf'[t] # buf[t])
        /\ (caught[t] \in {"generator", "severity"} /\ pc[t] = "d_newline"
               /\ pc'[t] = "d_reset" /\ newline_[t] /\ ~bad[t]) =>
              lineText'[t] = Append(lineText[t], Endl)

AppendNeverTerminates ==
    [][\A t \in Loggers :
          IsAppend(t) =>
              /\ ~terminated'
              /\ (bad'[t] /\ ~bad[t]) => lineText'[t] = lineText[t]]_vars

SnapHealthy(sn) == sn.sink # NULL /\ sinkGood[sn.sink]

\* A line that began while the registry held no sink, or one that was
\* unhealthy when installed.
NoSinkLine(t) == pc[t] # "idle" /\ snapSink[t].known /\ ~SnapHealthy(snapSink[t])

NoSinkInv ==
    \A t \in Loggers :
        (NoSinkLine(t) /\ pc[t] \notin {"c_lock", "c_check"}) =>
            /\ ~out_sync_stream_valid_[t] /\ out_sync_stream_[t] = NULL
            /\ buf[t] = <<>> /\ lineText[t] = <<>>
            /\ genCalls[t] = 0 /\ caught[t] = "none"

\* The line waits for nothing but a setter that holds the mutex.
NoSinkNeverStuck ==
    \A t \in Loggers :
        (NoSinkLine(t) /\ ~terminated
           /\ ~(pc[t] \in {"c_lock", "d_lock"} /\ writer # NULL)) =>
            ENABLED LineStep(t)

NoSinkAct ==
    \A t \in Loggers :
        (NoSinkLine(t) /\ Stepped(t)) =>
            /\ sinkContent' = sinkContent
            /\ terminated' = terminated
            /\ genCalls'[t] = 0

\* C6 (no-sink no-op): a line begun while the registry holds no sink, or a
\* sink that was unhealthy when installed, gets no handle, invokes no prefix
\* generator, catches and throws nothing, never ends the process, is never
\* blocked by anything but a setter inside its critical section, and none of
\* its steps changes the content of any sink.
NoSinkNoOp == [](NoSinkInv /\ NoSinkNeverStuck) /\ [][NoSinkAct]_vars

\* C6 witness: a line on an unhealthy sink has run its constructor, all its
\* appends and its destructor.
NoSinkWitness ==
    \E t \in Loggers :
        /\ NoSinkLine(t) /\ snapSink[t].sink # NULL
        /\ pc[t] = "d_unlock" /\ nAppends[t] = MaxAppends

\* The leading prefix-generator outputs of a line's text.
PrefixPart(text) ==
    LET n == CHOOSE k \in 0..Len(text) :
                 /\ \A i \in 1..k : text[i] \in Gens
                 /\ (k < Len(text) => text[k + 1] \notin Gens)
    IN  SubSeq(text, 1, n)

\* A line whose constructor started after SetOstream(s) returned binds to s.
ObservesSink ==
    \A t \in Loggers :
        (snapSink[t].known /\ pc[t] \in {"c_prefix", "c_unlock", "active", "d_lock",
                                         "d_newline", "d_reset"}) =>
            out_sync_stream_[t] =
                IF SnapHealthy(snapSink[t]) /\ caught[t] # "bad_alloc"
                  THEN snapSink[t].sink ELSE NULL

\* A line whose constructor started after SetPrefixList(L) returned emits the
\* prefixes of L.
ObservesPrefixes ==
    \A t \in Loggers :
        (snapList[t].known /\ out_sync_stream_valid_[t] /\ caught[t] = "none"
           /\ pc[t] \in {"c_unlock"} \cup AfterCtor) =>
            PrefixPart(lineText[t]) = snapList[t].list

\* Such a line, once closed, stands complete in s and nowhere else.
DeliversToObserved ==
    \A r \in closedLines :
        (r.snapSink.known /\ r.sink # NULL) =>
            /\ r.sink = r.snapSink.sink
            /\ r.how = "delivered"
            /\ TextOf(r.sink, r.id) = r.text
            /\ \A s \in SinkIds \ {r.sink} : TextOf(s, r.id) = <<>>

\* C7: a line whose construction starts after SetOstream(s) has returned, and
\* before any later SetOstream starts, binds to s and delivers its whole line
\* to s and to no other sink; a line whose construction starts after
\* SetPrefixList(L) has returned emits exactly the prefixes of L.
LinesAfterInstallObserveIt ==
    ObservesSink /\ ObservesPrefixes /\ DeliversToObserved

NewlineToggle ==
    \A t \in Loggers :
        /\ pc[t] \in InCtor \cup {"active", "d_lock", "d_newline"} =>
              Count(lineText[t], Endl) = 0
        /\ (pc[t] \in {"d_reset", "d_unlock"} /\ out_sync_stream_valid_[t]) =>
              IF newline_[t]
                THEN /\ Count(lineText[t], Endl) = 1
                     /\ lineText[t][Len(lineText[t])] = Endl
                ELSE Count(lineText[t], Endl) = 0

NoSetOstreamInside ==
    \A c \in Configurers : pc[c] \notin {"s_move", "s_valid", "s_unlock"}

\* C10 (registry invariant): whenever no SetOstream is inside its critical
\* section, out_stream_valid_ is true only if out_stream_ is non-null, and
\* out_stream_ is the sink the last SetOstream installed; a line binds its
\* handle to the very sink that was installed when it read out_stream_valid_.
RegistryInvariant ==
    /\ NoSetOstreamInside =>
          /\ out_stream_valid_ => out_stream_ # NULL
          /\ out_stream_ = lastSink
    /\ \A t \in Loggers :
          /\ pc[t] = "c_make" => (checkedSink[t] = out_stream_ /\ out_stream_ # NULL)
          /\ out_sync_stream_[t] # NULL => out_sync_stream_[t] = checkedSink[t]

\* C10 witness: a line has read the flag and is about to bind while a
\* SetOstream with another sink waits for the mutex.
RegistryInvariantWitness ==
    \E t \in Loggers, c \in Configurers :
        /\ pc[t] = "c_make" /\ pc[c] = "s_lock"
        /\ argSink[c] # out_stream_

\* The line thread t has closed, as the sinks show it.
ClosedAs(t) == {r \in closedLines : r.id = LineId(t)}

\* What the inputs of line t make its text: the prefix list installed when it
\* was constructed, its severity and newline arguments and the values given
\* to operator<<.
ExpectedText(t) ==
    snapList[t].list \o <<severity_map[severity[t] + 1], ": ">> \o given[t]
        \o (IF newline_[t] THEN <<Endl>> ELSE <<>>)

\* The line was constructed with sink and prefix list installed, the sink
\* valid, the severity one of the five; its construction and all its appends
\* succeeded, and its sink stayed installed until it closed.
WholeLine(t) ==
    /\ snapSink[t].known /\ SnapHealthy(snapSink[t]) /\ snapList[t].known
    /\ InRange(severity[t]) /\ caught[t] = "none" /\ ~bad[t] /\ ~overlap[t]

\* C11 (end-to-end line content): a line constructed on a valid sink with
\* severity s and prefix list P, given the appends v1..vk and closed, has
\* delivered to that sink exactly: the outputs of P in order, the tag of s,
\* ": ", v1..vk in call order, and one terminator iff newline; no other sink
\* holds any of it.
EndToEndContent ==
    \A t \in Loggers :
        (pc[t] = "d_unlock" /\ WholeLine(t)) =>
            /\ ClosedAs(t) # {}
            /\ \A r \in ClosedAs(t) :
                  /\ r.how = "delivered" /\ r.sink = snapSink[t].sink
                  /\ TextOf(r.sink, r.id) = ExpectedText(t)
                  /\ \A s \in SinkIds \ {r.sink} : TextOf(s, r.id) = <<>>

\* C11 witness: with no prefixes, LOG(WARNING) << x << y has been closed and
\* the sink holds "WARNING: xy" and the terminator.
EndToEndWitness ==
    \E t \in Loggers :
        /\ pc[t] = "d_unlock" /\ WholeLine(t)
        /\ snapList[t].list = <<>> /\ severity[t] = 2 /\ newline_[t]
        /\ given[t] = <<"x", "y">>
        /\ \E r \in ClosedAs(t) :
              TextOf(r.sink, r.id) = <<"WARNING", ": ", "x", "y", "\n">>

\* The fixed table of the five defined severities.
TagOfSeverity(sev) ==
    CASE sev = 0 -> "DEBUG"
      [] sev = 1 -> "INFO"
      [] sev = 2 -> "WARNING"
      [] sev = 3 -> "ERROR"
      [] sev = 4 -> "CRITICAL"

Holding == {"c_unlock", "active", "d_lock", "d_newline", "d_reset"}

\* C12 (severity mapping): for each of the five defined severities, the tag a
\* line puts into its stream after its prefixes is the table entry of its
\* severity (Debug(0) -> DEBUG ... Critical(4) -> CRITICAL), and the stream
\* holds no other tag.
SeverityMapping ==
    \A t \in Loggers :
        (pc[t] \in Holding /\ out_sync_stream_valid_[t] /\ caught[t] = "none"
           /\ severity[t] \in 0..4) =>
            LET k == Len(PrefixPart(buf[t])) IN
            /\ Len(buf[t]) > k
            /\ buf[t][k + 1] = TagOfSeverity(severity[t])
            /\ \A i \in 1..Len(buf[t]) :
                  (i # k + 1) => \A sev \in 0..4 : buf[t][i] # TagOfSeverity(sev)

\* C12 witness: LOG(CRITICAL) has been constructed on a valid sink with the
\* prefix list [A] and its stream holds A, CRITICAL and the separator.
SeverityMappingWitness ==
    \E t \in Loggers :
        /\ pc[t] = "active" /\ severity[t] = 4 /\ caught[t] = "none"
        /\ buf[t] = <<"A", "CRITICAL", ": ">>

InSetterCritical(c) == pc[c] \in {"s_move", "s_valid", "s_unlock", "p_assign", "p_unlock"}
InLineBody(t) ==
    pc[t] \in {"c_check", "c_make", "c_prefix", "c_unlock", "d_newline", "d_reset",
               "d_unlock"}

\* C13 (lock discipline): at most one SetOstream/SetPrefixList is inside its
\* critical section; while one is, no line is inside its constructor body or
\* its destructor body; a line that waits to enter either body is admitted
\* whenever no setter is inside, however many lines are inside; and no line
\* is about to emit while a SetOstream is about to replace the sink.
LockDiscipline ==
    /\ Cardinality({c \in AllConfigurers : InSetterCritical(c)}) <= 1
    /\ (\E c \in AllConfigurers : InSetterCritical(c)) =>
          \A t \in Loggers : ~InLineBody(t)
    /\ \A t \in Loggers :
          (pc[t] \in {"c_lock", "d_lock"} /\ ~terminated
             /\ \A c \in AllConfigurers : ~InSetterCritical(c)) =>
              ENABLED (CtorLock(t) \/ DtorLock(t))
    /\ \A t \in Loggers, c \in AllConfigurers :
          ~(pc[t] = "d_reset" /\ pc[c] = "s_move")

\* C13 witness: two lines are inside their bodies at once, one of them about
\* to emit, while a SetOstream and a SetPrefixList wait for the mutex.
LockDisciplineWitness ==
    /\ \A t \in Loggers : InLineBody(t)
    /\ \E t \in Loggers : pc[t] = "d_reset" /\ out_sync_stream_[t] # NULL
    /\ \E c, e \in AllConfigurers : pc[c] = "s_lock" /\ pc[e] = "p_lock"

\* The prefix lists that have been installed: the one of start-up and the one
\* installed since.
InstalledLists == {<<"A", "B">>, lastList, prefix_function_list_}

\* C14 (consistent configuration per line): whatever SetOstream and
\* SetPrefixList do while a line is constructed, the prefixes the line emits
\* are those of one installed list in that list's order, the whole list
\* unless a generator threw (then the list up to that generator), and the
\* sink the line binds is the one whose validity flag it read.
ConsistentConfiguration ==
    \A t \in Loggers :
        /\ pc[t] = "c_prefix" =>
              lineText[t] = SubSeq(prefix_function_list_, 1, it[t] - 1)
        /\ (pc[t] \in Holding /\ out_sync_stream_valid_[t]) =>
              \E l \in InstalledLists :
                  IF caught[t] = "none"
                    THEN PrefixPart(lineText[t]) = l
                    ELSE StartsWith(l, PrefixPart(lineText[t]))
        /\ pc[t] = "c_make" =>
              (out_stream_valid_ /\ checkedSink[t] = out_stream_)
        /\ (pc[t] \in Holding /\ out_sync_stream_[t] # NULL) =>
              out_sync_stream_[t] = checkedSink[t]

\* C14 witness: a line constructed while a SetPrefixList was running has
\* emitted the new list, and another the old one.
ConsistentConfigurationWitness ==
    \E t, u \in Loggers :
        /\ ~snapList[t].known /\ pc[t] = "active" /\ caught[t] = "none"
        /\ PrefixPart(lineText[t]) = <<"B", "A">>
        /\ ~snapList[u].known /\ pc[u] = "active" /\ caught[u] = "none"
        /\ PrefixPart(lineText[u]) = <<"A", "B">>

SetOstreamStepped(c) ==
    pc'[c] # pc[c] /\ (InSetOstream(c) \/ pc'[c] = "s_lock")

ValidityFrame ==
    /\ (out_stream_' # out_stream_ \/ out_stream_valid_' # out_stream_valid_) =>
          \E c \in AllConfigurers : SetOstreamStepped(c)
    /\ (\E c \in AllConfigurers : SetOstreamStepped(c)) =>
          prefix_function_list_' = prefix_function_list_
    /\ sinkGood' # sinkGood =>
          \/ \E c \in AllConfigurers : pc[c] = "idle" /\ pc'[c] = "s_lock"
          \/ out_stream_valid_' = out_stream_valid_
    /\ \A t \in Loggers :
          (pc[t] = "c_check" /\ pc'[t] # pc[t]) =>
              pc'[t] = IF out_stream_valid_ THEN "c_make" ELSE "c_unlock"
    /\ \A t \in Loggers :
          (pc[t] = "c_make" /\ pc'[t] = "c_prefix") =>
              (out_sync_stream_'[t] = out_stream_ /\ out_sync_stream_valid_'[t])

\* C16 (validity is fixed at installation): out_stream_ and out_stream_valid_
\* change only in a step of SetOstream (no step of a constructor, an
\* operator<<, a destructor or SetPrefixList changes them, nor does a change
\* of the stream's state), and no step of SetOstream changes the prefix
\* list; a constructor goes on to bind a handle exactly when the flag
\* is set, whatever the stream's state has become, and binds the installed
\* sink.
ValidityFixedAtInstallation == [][ValidityFrame]_vars

\* C16 witness: the installed stream is no longer good(), the flag still
\* says valid, and a line has bound its handle to that stream and holds text
\* for it.
ValidityFixedWitness ==
    \E t \in Loggers :
        /\ out_stream_ # NULL /\ out_stream_valid_ /\ ~sinkGood[out_stream_]
        /\ pc[t] = "active" /\ out_sync_stream_[t] = out_stream_
        /\ Len(buf[t]) >= 4

OutOfRangeInv ==
    \A t \in Loggers :
        /\ caught[t] = "severity" =>
              /\ ~InRange(severity[t])
              /\ pc[t] \in {"c_unlock"} \cup AfterCtor
              /\ out_sync_stream_valid_[t]
              /\ pc[t] # "d_unlock" => out_sync_stream_[t] # NULL
              /\ \A i \in 1..Len(lineText[t]) :
                    lineText[t][i] \notin {": "} \cup {severity_map[k] : k \in 1..5}
              /\ snapList[t].known => PrefixPart(lineText[t]) = snapList[t].list
              /\ (pc[t] = "d_unlock" /\ ~overlap[t] /\ ~bad[t] /\ snapList[t].known) =>
                    \A r \in ClosedAs(t) :
                        /\ r.how = "delivered"
                        /\ TextOf(r.sink, r.id) =
                              snapList[t].list \o given[t]
                                  \o (IF newline_[t] THEN <<Endl>> ELSE <<>>)
        /\ (pc[t] \in {"c_unlock"} \cup AfterCtor /\ out_sync_stream_valid_[t]
               /\ ~InRange(severity[t])) =>
              caught[t] \in {"generator", "severity"}

OutOfRangeAct ==
    \A t \in Loggers :
        /\ (caught[t] = "none" /\ caught'[t] = "severity") =>
              /\ terminated' = terminated /\ pc'[t] = "c_unlock"
              /\ buf'[t] = buf[t] /\ sinkContent' = sinkContent
        /\ (caught[t] = "severity" /\ IsAppend(t) /\ ~bad'[t] /\ ~terminated') =>
              (Len(buf'[t]) = Len(buf[t]) + 1 /\ given'[t] # given[t])
        /\ (caught[t] = "severity" /\ pc[t] = "d_newline" /\ pc'[t] = "d_reset"
               /\ newline_[t] /\ ~bad[t]) =>
              buf'[t] = Append(buf[t], Endl)

\* C15 (out-of-range severity): for a line constructed on a valid sink with a
\* severity outside 0..4, the lookup fails and is caught: the process goes
\* on, the constructor ends normally with the handle valid, the line holds
\* its prefixes and neither a tag nor ": ", every later append that succeeds
\* and the terminator are written, and the closed line is delivered as
\* prefixes, values, terminator.
OutOfRangeSeverity == []OutOfRangeInv /\ [][OutOfRangeAct]_vars

\* C15 witness: with [A] installed, a line of severity 5 given x has been
\* closed and the sink holds "A", "x" and the terminator.
OutOfRangeSeverityWitness ==
    \E t \in Loggers :
        /\ caught[t] = "severity" /\ severity[t] = 5 /\ pc[t] = "d_unlock"
        /\ \E r \in ClosedAs(t) : TextOf(r.sink, r.id) = <<"A", "x", "\n">>

\* C17 as stated (prefix evaluation): every line constructed on a valid sink
\* has invoked each installed prefix generator exactly once by the end of its
\* construction.
EveryGeneratorInvokedOnce ==
    \A t \in Loggers :
        (pc[t] \in AfterCtor /\ snapSink[t].known /\ SnapHealthy(snapSink[t])
           /\ snapList[t].known) =>
            genCalls[t] = Len(snapList[t].list)

PrefixEvaluationInv ==
    \A t \in Loggers :
        /\ pc[t] = "c_prefix" => genCalls[t] = it[t] - 1
        /\ (pc[t] # "idle" /\ ~out_sync_stream_valid_[t]) => genCalls[t] = 0
        /\ (pc[t] \in {"c_unlock"} \cup AfterCtor /\ snapList[t].known) =>
              /\ (caught[t] \in {"none", "severity"} /\ out_sync_stream_valid_[t]) =>
                    /\ genCalls[t] = Len(snapList[t].list)
                    /\ PrefixPart(lineText[t]) = snapList[t].list
              /\ caught[t] = "generator" =>
                    /\ genCalls[t] \in 1..Len(snapList[t].list)
                    /\ PrefixPart(lineText[t]) =
                          SubSeq(snapList[t].list, 1, genCalls[t] - 1)
              /\ caught[t] = "bad_alloc" => genCalls[t] = 0

PrefixEvaluationAct ==
    \A t \in Threads :
        genCalls'[t] # genCalls[t] =>
            \/ /\ pc[t] = "c_prefix" /\ it[t] <= Len(prefix_function_list_)
               /\ genCalls'[t] = genCalls[t] + 1
               /\ caught'[t] = caught[t] =>
                     buf'[t] = Append(buf[t], prefix_function_list_[it[t]])
            \/ /\ pc[t] = "d_unlock" /\ pc'[t] = "idle" /\ genCalls'[t] = 0

\* C17 as amended: a prefix generator is invoked only by the prefix loop of a
\* constructor that found the sink valid and created its wosyncstream, never
\* by operator<<, the destructor, SetPrefixList or a line on an invalid sink;
\* the loop invokes the installed generators in list order, each at most
\* once, and inserts each output as it is returned; every generator is
\* invoked exactly once unless the construction failed before its turn
\* (std::bad_alloc: none is invoked; a generator threw: those after it are
\* not invoked).
PrefixEvaluation == []PrefixEvaluationInv /\ [][PrefixEvaluationAct]_vars

\* C17 witness: a line built with [A, B] installed has invoked two
\* generators, taken two appends and been closed.
PrefixEvaluationWitness ==
    \E t \in Loggers :
        /\ pc[t] = "d_unlock" /\ caught[t] = "none" /\ nAppends[t] = 2
        /\ snapList[t].known /\ snapList[t].list = <<"A", "B">>
        /\ genCalls[t] = 2

NotYetEmitted == InCtor \cup {"active", "d_lock", "d_newline", "d_reset"}

NoPartialLineInv ==
    /\ \A s \in SinkIds :
          /\ Contiguous(sinkContent[s])
          /\ \A i \in 1..Len(sinkContent[s]) :
                \E r \in closedLines :
                    /\ r.id = sinkContent[s][i][1] /\ r.sink = s
                    /\ r.how = "delivered" /\ TextOf(s, r.id) = r.text
          /\ \A t \in Loggers, i, j \in 1..Len(sinkContent[s]) :
                (sinkContent[s][i][1][1] = t /\ sinkContent[s][j][1][1] = t
                   /\ sinkContent[s][i][1][2] < sinkContent[s][j][1][2]) => i < j
    /\ \A t \in Loggers :
          pc[t] \in NotYetEmitted => \A s \in SinkIds : TextOf(s, LineId(t)) = <<>>

NoPartialLineAct ==
    sinkContent' # sinkContent =>
        \E t \in Loggers, s \in SinkIds :
            /\ pc[t] = "d_reset" /\ pc'[t] = "d_unlock"
            /\ sinkContent' = [sinkContent EXCEPT ![s] =
                                   @ \o Tagged(LineId(t), lineText[t])]

\* C18 (no partial line is visible): in every state a sink holds nothing but
\* the complete texts of lines that have been closed on it, each as one
\* block; a line that has not reached its final emit has no character in any
\* sink; the only step that changes a sink is the emit of a closing line,
\* which puts the line's whole text after what the sink holds, so the blocks
\* stand in the order of closing; and of two lines of one thread the earlier
\* stands first.
NoPartialLine == []NoPartialLineInv /\ [][NoPartialLineAct]_vars

\* C18 witness: the sink holds the first line of a thread and then its
\* second, both with values and terminator, while the other thread's line is
\* open with text of its own that no sink shows.
NoPartialLineWitness ==
    \E t, u \in Loggers, a, b \in closedLines :
        /\ a.id = <<t, 1>> /\ b.id = <<t, 2>>
        /\ a.how = "delivered" /\ b.how = "delivered"
        /\ Len(a.text) >= 5 /\ Len(b.text) >= 5
        /\ sinkContent[a.sink] = Tagged(a.id, a.text) \o Tagged(b.id, b.text)
        /\ u # t /\ pc[u] = "active" /\ Len(buf[u]) >= 4

\* Every constructor and destructor gets the shared lock and returns.
LinesProgress ==
    \A t \in Loggers :
        /\ (pc[t] = "c_lock") ~> (pc[t] = "active")
        /\ (pc[t] = "d_lock") ~> (pc[t] = "idle")

\* Every SetOstream and SetPrefixList gets the exclusive lock and returns.
SettersProgress ==
    \A c \in Configurers :
        /\ (pc[c] = "s_lock") ~> (pc[c] = "idle")
        /\ (pc[c] = "p_lock") ~> (pc[c] = "idle")

\* A line holds the mutex only inside its constructor and its destructor, and
\* the destructor is admitted whenever no setter holds the mutex.
NoLockBetween ==
    \A t \in Loggers :
        /\ pc[t] \in {"idle", "c_lock", "active", "d_lock"} => t \notin readers
        /\ writer # t
        /\ (pc[t] = "d_lock" /\ writer = NULL /\ ~terminated) => ENABLED DtorLock(t)

\* C19 (progress): under fair scheduling every constructor and destructor
\* gets the shared lock and returns, every SetOstream and SetPrefixList gets
\* the exclusive lock and returns even while other threads keep constructing
\* and closing lines, no lock is held between the end of construction and
\* the start of close, and close never needs exclusive access.
Progress == LinesProgress /\ SettersProgress /\ []NoLockBetween
====
